---- MODULE Spec2Model ----
(***************************************************************************)
(* Model of src/app.py: process_trades (the FIFO position matcher with its *)
(* lot classifier) and analyze_summary (the ratio columns of the           *)
(* aggregator).                                                            *)
(*                                                                         *)
(* Arithmetic: pandas works on float64.  Quotients are kept here as exact  *)
(* fractions [n, d] (d > 0), so the model is the code's arithmetic without *)
(* rounding; the IEEE special values of a division by zero (inf, -inf,     *)
(* NaN) are modelled explicitly in FloatDiv.                               *)
(*                                                                         *)
(* Columns of the data frames that no modelled decision reads (position    *)
(* side, settlement date and month) are left out of the records.  Fields   *)
(* named row / closed / open / matched_qty are history fields: they record *)
(* which input row a record came from and are read by no action.           *)
(***************************************************************************)
EXTENDS Integers, Sequences, FiniteSets

\* ------------------------------------------------------------------ bounds
MaxRows == 3
MaxTime == 3
MaxQty == 2
MaxLots == 3

\* ------------------------------------------------------------ input domains
\* Instrument names, as the text the substring tests of lines 49 and 73 scan.
Letters ==
  [USDJPY |-> <<"U", "S", "D", "J", "P", "Y">>,
   N225   |-> <<"N", "2", "2", "5">>]

Instruments == DOMAIN Letters

Prices == {100, 101}
Times == 1..MaxTime

\* A quantity cell of the export: <<q>> is numeric text, <<>> is a cell that
\* pd.to_numeric cannot parse.  Quantities are magnitudes (the direction of a
\* trade is a column of its own), so the numeric cells are positive.
QtyCells == {<<>>} \cup {<<q>> : q \in 1..MaxQty}

\* Opening executions.  An opening execution at the last instant of the
\* time range could precede no closing, so opens range over the earlier ones.
OpenRows ==
  [kind : {"new"}, name : Instruments, time : 1..(MaxTime - 1),
   qty : QtyCells, price : Prices, open_price : {0}, profit : {0}]

\* Closing executions: an ordinary close books a gain, a forced close a loss.
ClosedRows ==
  [kind : {"close"}, name : Instruments, time : Times, qty : QtyCells,
   price : {0}, open_price : {100}, profit : {6}]
  \cup
  [kind : {"losscut"}, name : Instruments, time : Times, qty : QtyCells,
   price : {0}, open_price : {100}, profit : {-6}]

OtherRows ==
  [kind : {"swap"}, name : {"USDJPY"}, time : {1}, qty : {<<>>},
   price : {0}, open_price : {0}, profit : {6}]

RawRows == OpenRows \cup ClosedRows \cup OtherRows

\* --------------------------------------------------------------- fractions
Frac(n, d) == [n |-> n, d |-> d]

FracMul(a, k) == Frac(a.n * k, a.d)

FracAdd(a, b) == Frac(a.n * b.d + b.n * a.d, a.d * b.d)

FracEq(a, b) == a.n * b.d = b.n * a.d

\* -------------------------------------------------------------- variables
VARIABLES
  df,                \* the uploaded rows, in file order
  new_trades,        \* opening executions, sorted, with remaining quantity
  closed_trades,     \* closing executions in processing order
  ci,                \* position of the outer loop in closed_trades
  closed_qty,        \* quantity of the current closing still to match
  is_matched,
  potential_matches, \* snapshot of the eligible opens of the current closing
  mi,                \* position of the inner loop in potential_matches
  results,           \* ClosedLot records emitted so far
  pc,
  lots,              \* the closed-lot table handed to analyze_summary
  summary            \* its summary rows

vars ==
  <<df, new_trades, closed_trades, ci, closed_qty, is_matched,
    potential_matches, mi, results, pc, lots, summary>>

\* ---------------------------------------------------------------- helpers
Min(a, b) == IF a <= b THEN a ELSE b

\* pd.to_numeric(..., errors='coerce').fillna(0)
ToNumeric(cell) == IF cell = <<>> THEN 0 ELSE cell[1]

\* Python's `tok in s` on strings.
Contains(tok, s) ==
  \E i \in 1..(Len(s) - Len(tok) + 1) : SubSeq(s, i, i + Len(tok) - 1) = tok

\* Series.str.contains on the trade-kind tag.
IsNew(r) == r.kind = "new"

IsClosed(r) == r.kind \in {"close", "losscut"}

\* The positions at which flags is true, in order, from i on (boolean mask).
RECURSIVE Mask(_, _)
Mask(flags, i) ==
  IF i > Len(flags) THEN <<>>
  ELSE (IF flags[i] THEN <<i>> ELSE <<>>) \o Mask(flags, i + 1)

Permutations(n) ==
  {f \in [1..n -> 1..n] : \A i, j \in 1..n : f[i] = f[j] => i = j}

IsSortedByTime(s) == \A i, j \in 1..Len(s) : i < j => s[i].time <= s[j].time

\* Mutation of SortValues: the rows are left in file order.
SortValuesFileOrder(s) == {s}

\* sort_values(by time) with the default, unstable sort: every order of the
\* rows that is ascending in time is a possible outcome.
SortValues(s) ==
  {t \in {[i \in 1..Len(s) |-> s[f[i]]] : f \in Permutations(Len(s))} :
     IsSortedByTime(t)}

is_fx(name) ==
  \/ Contains(<<"J", "P", "Y">>, Letters[name])
  \/ Contains(<<"U", "S", "D">>, Letters[name])
  \/ Contains(<<"E", "U", "R">>, Letters[name])

\* Mutation of lot_size: an FX lot taken as 1000 units.
lot_size_Thousand(name) == IF is_fx(name) THEN 1000 ELSE 1

lot_size(name) == IF is_fx(name) THEN 10000 ELSE 1

trade_type(name) == IF is_fx(name) THEN "FX" ELSE "CFD"

\* Lines 15-20 and 25: typed rows, partitioned by kind tag.
NewOf(d) ==
  LET idx == Mask([i \in 1..Len(d) |-> IsNew(d[i])], 1)
  IN [k \in 1..Len(idx) |->
        [row |-> idx[k], name |-> d[idx[k]].name, time |-> d[idx[k]].time,
         qty |-> ToNumeric(d[idx[k]].qty), price |-> d[idx[k]].price,
         remaining |-> ToNumeric(d[idx[k]].qty)]]

ClosedOf(d) ==
  LET idx == Mask([i \in 1..Len(d) |-> IsClosed(d[i])], 1)
  IN [k \in 1..Len(idx) |->
        [row |-> idx[k], name |-> d[idx[k]].name, time |-> d[idx[k]].time,
         qty |-> ToNumeric(d[idx[k]].qty),
         open_price |-> d[idx[k]].open_price, profit |-> d[idx[k]].profit]]

\* Mutation of PotentialMatches: the price condition of line 37 is missing.
PotentialMatchesAnyPrice(nt, c) ==
  LET idx == Mask([i \in 1..Len(nt) |->
                     /\ nt[i].name = c.name
                     /\ nt[i].remaining > 0
                     /\ nt[i].time < c.time], 1)
  IN [k \in 1..Len(idx) |->
        [index |-> idx[k], remaining |-> nt[idx[k]].remaining]]

\* Mutation of PotentialMatches: line 39 compares with <= instead of <.
PotentialMatchesNotLater(nt, c) ==
  LET idx == Mask([i \in 1..Len(nt) |->
                     /\ nt[i].name = c.name
                     /\ nt[i].price = c.open_price
                     /\ nt[i].remaining > 0
                     /\ nt[i].time <= c.time], 1)
  IN [k \in 1..Len(idx) |->
        [index |-> idx[k], remaining |-> nt[idx[k]].remaining]]

\* Mutation of PotentialMatches: the eligible opens are visited newest first.
PotentialMatchesNewestFirst(nt, c) ==
  LET idx == Mask([i \in 1..Len(nt) |->
                     /\ nt[i].name = c.name
                     /\ nt[i].price = c.open_price
                     /\ nt[i].remaining > 0
                     /\ nt[i].time < c.time], 1)
  IN [k \in 1..Len(idx) |->
        [index |-> idx[Len(idx) + 1 - k],
         remaining |-> nt[idx[Len(idx) + 1 - k]].remaining]]

\* Lines 35-40: the eligible opens of closing c, in the order of new_trades,
\* each with the remaining quantity it has when the snapshot is taken.
PotentialMatches(nt, c) ==
  LET idx == Mask([i \in 1..Len(nt) |->
                     /\ nt[i].name = c.name
                     /\ nt[i].price = c.open_price
                     /\ nt[i].remaining > 0
                     /\ nt[i].time < c.time], 1)
  IN [k \in 1..Len(idx) |->
        [index |-> idx[k], remaining |-> nt[idx[k]].remaining]]

\* Mutation of MatchedQty: the whole closing quantity, without the min.
MatchedQtyUncapped(cq, rem) == cq

\* Line 47.
MatchedQty(cq, rem) == Min(cq, rem)

\* Mutation of ProRataProfit: every slice carries the whole realized profit.
ProRataProfitWhole(c, matched) == Frac(c.profit, 1)

\* Line 56.
ProRataProfit(c, matched) ==
  IF c.qty # 0 THEN FracMul(Frac(c.profit, c.qty), matched) ELSE Frac(0, 1)

\* Lines 47-67: the ClosedLot of one matched slice.
MatchedLot(c, o, matched) ==
  [name |-> c.name,
   profit |-> ProRataProfit(c, matched),
   holding_time |-> <<c.time - o.time>>,
   lot |-> Frac(matched, lot_size(c.name)),
   trade_type |-> trade_type(c.name),
   closed |-> c.row, open |-> o.row, matched_qty |-> matched]

\* Lines 73-88: the ClosedLot of an unmatched closing (holding time NaT).
UnmatchedLot(c) ==
  [name |-> c.name,
   profit |-> Frac(c.profit, 1),
   holding_time |-> <<>>,
   lot |-> Frac(c.qty, lot_size(c.name)),
   trade_type |-> trade_type(c.name),
   closed |-> c.row, open |-> 0, matched_qty |-> c.qty]

\* Lines 42-44: the inner loop stops when the snapshot is exhausted or the
\* closing quantity is used up.
LoopEnds(pm, m, cq) == m > Len(pm) \/ cq <= 0

\* Lines 46-70: the effect of one inner iteration on the open at pm[m].
IterResult(nt, c, pm, m, cq) ==
  LET match_index == pm[m].index
      matched == MatchedQty(cq, pm[m].remaining)
  IN [new_trades |-> [nt EXCEPT ![match_index].remaining = @ - matched],
      lot |-> MatchedLot(c, nt[match_index], matched),
      closed_qty |-> cq - matched]

\* Lines 42-88 run to the end for one closing c: the inner loop from position
\* m of the snapshot, then the fallback record when nothing was matched.
RECURSIVE RunMatches(_, _, _, _, _, _, _)
RunMatches(nt, c, pm, m, cq, matched, res) ==
  IF LoopEnds(pm, m, cq)
  THEN [new_trades |-> nt,
        results |-> IF matched THEN res ELSE Append(res, UnmatchedLot(c))]
  ELSE LET it == IterResult(nt, c, pm, m, cq)
       IN RunMatches(it.new_trades, c, pm, m + 1, it.closed_qty, TRUE,
                     Append(res, it.lot))

\* Lines 30-90 run to the end: the outer loop from position k of cs.
RECURSIVE RunClosings(_, _, _, _)
RunClosings(nt, cs, k, res) ==
  IF k > Len(cs) THEN [new_trades |-> nt, results |-> res]
  ELSE LET r == RunMatches(nt, cs[k], PotentialMatches(nt, cs[k]), 1,
                           cs[k].qty, FALSE, res)
       IN RunClosings(r.new_trades, cs, k + 1, r.results)

\* process_trades as a whole: the outcomes it can return on the rows d, one
\* for each order the two sorts can produce.
process_trades(d) ==
  IF ClosedOf(d) = <<>> THEN {[new_trades |-> NewOf(d), results |-> <<>>]}
  ELSE {RunClosings(ns, cs, 1, <<>>) :
          ns \in SortValues(NewOf(d)), cs \in SortValues(ClosedOf(d))}

\* ------------------------------------------------------- analyze_summary
\* float64 values: a finite fraction, or one of inf, -inf, NaN.
Num(f) == [kind |-> "num", v |-> f]

Inf == [kind |-> "inf", v |-> Frac(0, 1)]

NegInf == [kind |-> "-inf", v |-> Frac(0, 1)]

NaN == [kind |-> "nan", v |-> Frac(0, 1)]

\* Series / Series on finite values, with IEEE division by zero.
FloatDiv(a, b) ==
  IF b.v.n = 0
  THEN (IF a.v.n > 0 THEN Inf ELSE IF a.v.n < 0 THEN NegInf ELSE NaN)
  ELSE IF b.v.n > 0 THEN Num(Frac(a.v.n * b.v.d, a.v.d * b.v.n))
  ELSE Num(Frac(-(a.v.n * b.v.d), -(a.v.d * b.v.n)))

FloatAbs(a) == IF a.v.n < 0 THEN Num(Frac(-a.v.n, a.v.d)) ELSE a

FillNa(a, v) == IF a.kind = "nan" THEN v ELSE a

IsWin(l) == l.profit.n > 0

IsLoss(l) == l.profit.n < 0

\* The rows of table t in group g that satisfy the mask.
Wins(t, g) == {i \in 1..Len(t) : t[i].name = g /\ IsWin(t[i])}

Losses(t, g) == {i \in 1..Len(t) : t[i].name = g /\ IsLoss(t[i])}

Members(t, g) == {i \in 1..Len(t) : t[i].name = g}

RECURSIVE SumOver(_, _)
SumOver(t, S) ==
  IF S = {} THEN Frac(0, 1)
  ELSE LET i == CHOOSE x \in S : TRUE
       IN FracAdd(t[i].profit, SumOver(t, S \ {i}))

\* Line 110.
WinRate(wins, count) ==
  LET q == FloatDiv(Num(Frac(wins, 1)), Num(Frac(count, 1)))
  IN FillNa(IF q.kind = "num" THEN Num(FracMul(q.v, 100)) ELSE q,
            Num(Frac(0, 1)))

\* Lines 111-112: the grouped sum over a subset, 0 for a group without one.
GroupedSum(t, S) == Num(SumOver(t, S))

\* Mutation of ProfitFactor: the undefined ratio is filled with 0.
ProfitFactorZero(total_win, total_loss) ==
  FillNa(FloatDiv(total_win, FloatAbs(total_loss)), Num(Frac(0, 1)))

\* Line 113.
ProfitFactor(total_win, total_loss) ==
  FillNa(FloatDiv(total_win, FloatAbs(total_loss)), Inf)

\* Lines 114-115.
Average(total, n) == FillNa(FloatDiv(total, Num(Frac(n, 1))), Num(Frac(0, 1)))

\* Line 116.
RewardRisk(avg_win, avg_loss) ==
  FillNa(FloatDiv(avg_win, FloatAbs(avg_loss)), Inf)

\* Lines 99-116: the summary row of group g.
SummaryRow(t, g) ==
  LET count == Cardinality(Members(t, g))
      wins == Cardinality(Wins(t, g))
      losses == Cardinality(Losses(t, g))
      total_win == GroupedSum(t, Wins(t, g))
      total_loss == GroupedSum(t, Losses(t, g))
      avg_win == Average(total_win, wins)
      avg_loss == Average(total_loss, losses)
  IN [total |-> SumOver(t, Members(t, g)),
      count |-> count, wins |-> wins, losses |-> losses,
      win_rate |-> WinRate(wins, count),
      total_win |-> total_win, total_loss |-> total_loss,
      pf |-> ProfitFactor(total_win, total_loss),
      avg_win |-> avg_win, avg_loss |-> avg_loss,
      rr |-> RewardRisk(avg_win, avg_loss)]

\* ------------------------------------------------------------------- Init
RowSeqs == UNION {[1..n -> RawRows] : n \in 0..MaxRows}

Init ==
  /\ df \in RowSeqs
  /\ new_trades = <<>>
  /\ closed_trades = <<>>
  /\ ci = 0
  /\ closed_qty = 0
  /\ is_matched = FALSE
  /\ potential_matches = <<>>
  /\ mi = 0
  /\ results = <<>>
  /\ pc = "start"
  /\ lots = <<>>
  /\ summary = <<>>

\* ---------------------------------------------------------------- actions
\* Lines 22-23: no closing execution, the result is empty.
EmptyReturn ==
  /\ pc = "start"
  /\ ClosedOf(df) = <<>>
  /\ pc' = "done"
  /\ UNCHANGED <<df, new_trades, closed_trades, ci, closed_qty, is_matched,
                 potential_matches, mi, results, lots, summary>>

\* Lines 15-30: partition, sort the opens, sort the closings.
Prepare ==
  /\ pc = "start"
  /\ ClosedOf(df) # <<>>
  /\ new_trades' \in SortValues(NewOf(df))
  /\ closed_trades' \in SortValues(ClosedOf(df))
  /\ ci' = 1
  /\ pc' = "closing"
  /\ UNCHANGED <<df, closed_qty, is_matched, potential_matches, mi, results,
                 lots, summary>>

\* Lines 30-40: the next closing execution and its eligible opens.
NextClosed ==
  /\ pc = "closing"
  /\ ci <= Len(closed_trades)
  /\ closed_qty' = closed_trades[ci].qty
  /\ is_matched' = FALSE
  /\ potential_matches' = PotentialMatches(new_trades, closed_trades[ci])
  /\ mi' = 1
  /\ pc' = "match"
  /\ UNCHANGED <<df, new_trades, closed_trades, ci, results, lots, summary>>

\* Lines 42-70: one iteration of the inner loop.
MatchIter ==
  /\ pc = "match"
  /\ ~LoopEnds(potential_matches, mi, closed_qty)
  /\ LET it == IterResult(new_trades, closed_trades[ci], potential_matches,
                          mi, closed_qty)
     IN /\ is_matched' = TRUE
        /\ results' = Append(results, it.lot)
        /\ new_trades' = it.new_trades
        /\ closed_qty' = it.closed_qty
  /\ mi' = mi + 1
  /\ UNCHANGED <<df, closed_trades, ci, potential_matches, pc, lots, summary>>

\* Mutation of EndMatched: the quantity left over after the last eligible
\* open is emitted as an unmatched record.
EndMatchedLeftover ==
  /\ pc = "match"
  /\ LoopEnds(potential_matches, mi, closed_qty)
  /\ is_matched
  /\ results' =
       IF closed_qty > 0
       THEN Append(results,
                   UnmatchedLot([closed_trades[ci] EXCEPT !.qty = closed_qty]))
       ELSE results
  /\ ci' = ci + 1
  /\ pc' = "closing"
  /\ UNCHANGED <<df, new_trades, closed_trades, closed_qty, is_matched,
                 potential_matches, mi, lots, summary>>

\* Lines 42-44 and 72: the inner loop ends (exhausted or break) after a match.
EndMatched ==
  /\ pc = "match"
  /\ LoopEnds(potential_matches, mi, closed_qty)
  /\ is_matched
  /\ ci' = ci + 1
  /\ pc' = "closing"
  /\ UNCHANGED <<df, new_trades, closed_trades, closed_qty, is_matched,
                 potential_matches, mi, results, lots, summary>>

\* Mutation of Fallback: line 72 does not test is_matched.
FallbackAlways ==
  /\ pc = "match"
  /\ LoopEnds(potential_matches, mi, closed_qty)
  /\ results' = Append(results, UnmatchedLot(closed_trades[ci]))
  /\ ci' = ci + 1
  /\ pc' = "closing"
  /\ UNCHANGED <<df, new_trades, closed_trades, closed_qty, is_matched,
                 potential_matches, mi, lots, summary>>

\* Lines 42-44 and 72-88: the inner loop ends with is_matched still false.
Fallback ==
  /\ pc = "match"
  /\ LoopEnds(potential_matches, mi, closed_qty)
  /\ ~is_matched
  /\ results' = Append(results, UnmatchedLot(closed_trades[ci]))
  /\ ci' = ci + 1
  /\ pc' = "closing"
  /\ UNCHANGED <<df, new_trades, closed_trades, closed_qty, is_matched,
                 potential_matches, mi, lots, summary>>

\* Line 90.
Return ==
  /\ pc = "closing"
  /\ ci > Len(closed_trades)
  /\ pc' = "done"
  /\ UNCHANGED <<df, new_trades, closed_trades, ci, closed_qty, is_matched,
                 potential_matches, mi, results, lots, summary>>

Next ==
  \/ EmptyReturn
  \/ Prepare
  \/ NextClosed
  \/ MatchIter
  \/ EndMatched
  \/ Fallback
  \/ Return

Spec == Init /\ [][Next]_vars

\* ---------------------------------------------- analyze_summary, by itself
\* Realized profits a ClosedLot can carry: a full or a halved gain or loss,
\* or nothing.
LotProfits ==
  {Frac(-6, 1), Frac(-6, 2), Frac(0, 1), Frac(6, 2), Frac(6, 1)}

LotTables ==
  UNION {[1..n -> [name : Instruments, profit : LotProfits]] :
           n \in 0..MaxLots}

InitSummary ==
  /\ df = <<>>
  /\ new_trades = <<>>
  /\ closed_trades = <<>>
  /\ ci = 0
  /\ closed_qty = 0
  /\ is_matched = FALSE
  /\ potential_matches = <<>>
  /\ mi = 0
  /\ results = <<>>
  /\ pc = "analyze"
  /\ lots \in LotTables
  /\ summary = <<>>

\* Lines 93-94: an empty table gives an empty summary.
AnalyzeEmpty ==
  /\ pc = "analyze"
  /\ lots = <<>>
  /\ summary' = <<>>
  /\ pc' = "summarized"
  /\ UNCHANGED <<df, new_trades, closed_trades, ci, closed_qty, is_matched,
                 potential_matches, mi, results, lots>>

\* Lines 96-118, grouped by instrument name: one row per group that has a
\* ClosedLot.
AnalyzeSummary ==
  /\ pc = "analyze"
  /\ lots # <<>>
  /\ summary' = [g \in {lots[i].name : i \in 1..Len(lots)} |->
                   SummaryRow(lots, g)]
  /\ pc' = "summarized"
  /\ UNCHANGED <<df, new_trades, closed_trades, ci, closed_qty, is_matched,
                 potential_matches, mi, results, lots>>

NextSummary ==
  \/ AnalyzeEmpty
  \/ AnalyzeSummary

SpecSummary == InitSummary /\ [][NextSummary]_vars

\* ===================================================== reading the state
\* Closings whose processing is complete.
Processed == {k \in 1..Len(closed_trades) : k < ci}

\* The position in closed_trades of the closing that came from input row r.
ClosedPos(r) == CHOOSE k \in 1..Len(closed_trades) : closed_trades[k].row = r

LotIdx == 1..Len(results)

\* The ClosedLots emitted for the closing at position k.
LotsOf(k) == {i \in LotIdx : results[i].closed = closed_trades[k].row}

IsFallbackLot(l) == l.holding_time = <<>>

MatchedLotsOf(k) == {i \in LotsOf(k) : ~IsFallbackLot(results[i])}

RECURSIVE SumQty(_)
SumQty(S) ==
  IF S = {} THEN 0
  ELSE LET i == CHOOSE x \in S : TRUE
       IN results[i].matched_qty + SumQty(S \ {i})

RECURSIVE SumProfit(_)
SumProfit(S) ==
  IF S = {} THEN Frac(0, 1)
  ELSE LET i == CHOOSE x \in S : TRUE
       IN FracAdd(results[i].profit, SumProfit(S \ {i}))

\* Matched slices taken from open o by the closings at positions >= k.
TakenFrom(o, k) ==
  {i \in LotIdx : /\ ~IsFallbackLot(results[i])
                  /\ results[i].open = o.row
                  /\ ClosedPos(results[i].closed) >= k}

\* The remaining quantity open o had when the closing at position k was
\* taken up: what it has now plus what has been taken from it since.
RemainingAt(o, k) == o.remaining + SumQty(TakenFrom(o, k))

\* The eligibility conditions of a closing c on an open o.
SameKey(o, c) == o.name = c.name /\ o.price = c.open_price

\* Positions in new_trades of the opens eligible for the closing at k when
\* it was taken up.
EligibleAt(k) ==
  {j \in 1..Len(new_trades) :
     /\ SameKey(new_trades[j], closed_trades[k])
     /\ RemainingAt(new_trades[j], k) > 0
     /\ new_trades[j].time < closed_trades[k].time}

RECURSIVE SumRemainingAt(_, _)
SumRemainingAt(S, k) ==
  IF S = {} THEN 0
  ELSE LET j == CHOOSE x \in S : TRUE
       IN RemainingAt(new_trades[j], k) + SumRemainingAt(S \ {j}, k)

OpenByRow(r) == CHOOSE j \in 1..Len(new_trades) : new_trades[j].row = r

\* ================================================================ claims
\* C1: conservation.  For every processed closing with non-zero quantity
\* whose ClosedLots are matched slices summing to its quantity, the prorated
\* profits of those ClosedLots sum to its realized profit.
C1_Conservation ==
  \A k \in Processed :
    LET c == closed_trades[k]
    IN (/\ c.qty # 0
        /\ MatchedLotsOf(k) # {}
        /\ MatchedLotsOf(k) = LotsOf(k)
        /\ SumQty(MatchedLotsOf(k)) = c.qty)
       => FracEq(SumProfit(LotsOf(k)), Frac(c.profit, 1))

\* A closing of quantity 2 absorbed by two opens, one unit each.
C1_Witness ==
  \E k \in Processed :
    /\ Cardinality(MatchedLotsOf(k)) = 2
    /\ LotsOf(k) = MatchedLotsOf(k)
    /\ SumQty(MatchedLotsOf(k)) = closed_trades[k].qty

\* C2: non-over-consumption.  At every step, for every opening lot, the
\* quantity taken from it over all ClosedLots is what its remaining quantity
\* lost, never exceeds its original quantity, and the remaining quantity
\* stays between 0 and the original quantity.
C2_NoOverConsumption ==
  \A j \in 1..Len(new_trades) :
    LET o == new_trades[j]
    IN /\ 0 <= o.remaining
       /\ o.remaining <= o.qty
       /\ SumQty(TakenFrom(o, 1)) = o.qty - o.remaining
       /\ SumQty(TakenFrom(o, 1)) <= o.qty

\* An open of quantity 2 emptied by two different closings.
C2_Witness ==
  \E j \in 1..Len(new_trades) :
    /\ new_trades[j].qty = 2
    /\ new_trades[j].remaining = 0
    /\ Cardinality(TakenFrom(new_trades[j], 1)) = 2

\* C10: every matched ClosedLot pairs its closing with an open of the same
\* instrument, a price equal to the closing's opening-price field, a
\* remaining quantity > 0 before the match and a strictly earlier timestamp;
\* its matched quantity is > 0 and its holding time is the difference of the
\* timestamps, never negative.
C10_MatchedPairsEligible ==
  \A i \in LotIdx :
    ~IsFallbackLot(results[i]) =>
      LET k == ClosedPos(results[i].closed)
          c == closed_trades[k]
          o == new_trades[OpenByRow(results[i].open)]
      IN /\ o.name = c.name
         /\ o.price = c.open_price
         /\ RemainingAt(o, k) > 0
         /\ o.time < c.time
         /\ results[i].matched_qty > 0
         /\ results[i].holding_time = <<c.time - o.time>>
         /\ results[i].holding_time[1] >= 0

\* A matched lot exists although an open of the same key is not earlier than
\* the closing, and another open of the same instrument has another price.
C10_Witness ==
  \E i \in LotIdx :
    /\ ~IsFallbackLot(results[i])
    /\ \E j \in 1..Len(new_trades) :
         /\ new_trades[j].name = results[i].name
         /\ new_trades[j].remaining > 0
         /\ \/ new_trades[j].time >=
                 closed_trades[ClosedPos(results[i].closed)].time
            \/ new_trades[j].price #
                 closed_trades[ClosedPos(results[i].closed)].open_price

\* C3: FIFO order.  A younger open is touched by a closing only when every
\* strictly older open with the closing's key has no remaining quantity
\* left; and a closing whose quantity does not exceed the remaining quantity
\* of the oldest eligible open is taken entirely from an oldest open, every
\* younger eligible open keeping its remaining quantity.
OldestTime(E) ==
  CHOOSE t \in {new_trades[j].time : j \in E} :
    \A j \in E : t <= new_trades[j].time

C3_FIFO ==
  /\ \A i \in LotIdx :
       ~IsFallbackLot(results[i]) =>
         LET k == ClosedPos(results[i].closed)
             o == new_trades[OpenByRow(results[i].open)]
         IN \A j \in 1..Len(new_trades) :
              (/\ SameKey(new_trades[j], closed_trades[k])
               /\ new_trades[j].time < o.time)
              => RemainingAt(new_trades[j], k + 1) = 0
  /\ \A k \in Processed :
       LET c == closed_trades[k]
           E == EligibleAt(k)
       IN (/\ E # {}
           /\ c.qty > 0
           /\ \A j \in E : new_trades[j].time = OldestTime(E)
                            => c.qty <= RemainingAt(new_trades[j], k))
          => /\ \E i \in LotIdx :
                  /\ LotsOf(k) = {i}
                  /\ ~IsFallbackLot(results[i])
                  /\ results[i].matched_qty = c.qty
                  /\ new_trades[OpenByRow(results[i].open)].time
                       = OldestTime(E)
             /\ \A j \in E :
                  new_trades[j].time > OldestTime(E)
                  => RemainingAt(new_trades[j], k + 1)
                       = RemainingAt(new_trades[j], k)

\* A closing of quantity 1 with two eligible opens of different age, the
\* older one holding 2: one unit was taken from the older, none from the
\* younger.
C3_Witness ==
  \E k \in Processed :
    \E a, b \in EligibleAt(k) :
      /\ new_trades[a].time < new_trades[b].time
      /\ closed_trades[k].qty = 1
      /\ RemainingAt(new_trades[a], k) = 2
      /\ RemainingAt(new_trades[a], k + 1) = 1
      /\ RemainingAt(new_trades[b], k + 1) = RemainingAt(new_trades[b], k)

\* The lot divisor and class the closing's instrument is to be given.
ExpectedClass == [USDJPY |-> "FX", N225 |-> "CFD"]

ExpectedDivisor == [FX |-> 10000, CFD |-> 1]

\* C4: unmatched fallback.  A closing with no eligible open when it is taken
\* up yields exactly one ClosedLot, with holding time absent, the closing's
\* full realized profit and its own quantity over the lot divisor, and takes
\* nothing from any open.
C4_UnmatchedFallback ==
  \A k \in Processed :
    LET c == closed_trades[k]
    IN EligibleAt(k) = {} =>
         /\ \E i \in LotIdx :
              /\ LotsOf(k) = {i}
              /\ IsFallbackLot(results[i])
              /\ FracEq(results[i].profit, Frac(c.profit, 1))
              /\ FracEq(results[i].lot,
                        Frac(c.qty, ExpectedDivisor[ExpectedClass[c.name]]))
         /\ \A j \in 1..Len(new_trades) :
              /\ RemainingAt(new_trades[j], k + 1)
                   = RemainingAt(new_trades[j], k)
              /\ new_trades[j].qty - new_trades[j].remaining
                   = SumQty(TakenFrom(new_trades[j], 1))

\* An unmatched closing of positive quantity although an earlier open of the
\* same instrument still has quantity left (its price differs).
C4_Witness ==
  \E k \in Processed :
    /\ EligibleAt(k) = {}
    /\ closed_trades[k].qty > 0
    /\ \E i \in LotsOf(k) : IsFallbackLot(results[i])
    /\ \E j \in 1..Len(new_trades) :
         /\ new_trades[j].name = closed_trades[k].name
         /\ new_trades[j].time < closed_trades[k].time
         /\ RemainingAt(new_trades[j], k) > 0

\* C5: lot normalization.  Every ClosedLot's normalized lot quantity is the
\* raw quantity of its slice over the divisor of the closing's instrument
\* class (10000 for FX, 1 for CFD); the slice of an unmatched record is the
\* closing's quantity; all ClosedLots of one closing carry its class.
C5_LotNormalization ==
  \A i \in LotIdx :
    LET c == closed_trades[ClosedPos(results[i].closed)]
        class == ExpectedClass[c.name]
    IN /\ results[i].trade_type = class
       /\ FracEq(results[i].lot,
                 Frac(results[i].matched_qty, ExpectedDivisor[class]))
       /\ IsFallbackLot(results[i]) => results[i].matched_qty = c.qty
       /\ ~IsFallbackLot(results[i]) =>
            results[i].matched_qty
              = RemainingAt(new_trades[OpenByRow(results[i].open)],
                            ClosedPos(results[i].closed))
                - RemainingAt(new_trades[OpenByRow(results[i].open)],
                              ClosedPos(results[i].closed) + 1)

\* An FX slice of raw quantity 2 (0.0002 lots) beside a CFD slice.
C5_Witness ==
  /\ \E i \in LotIdx :
       /\ results[i].trade_type = "FX"
       /\ results[i].lot = Frac(2, 10000)
  /\ \E i \in LotIdx :
       /\ results[i].trade_type = "CFD"
       /\ results[i].lot.n > 0
       /\ results[i].lot.d = 1

HasFallback(k) == \E i \in LotsOf(k) : IsFallbackLot(results[i])

\* C7 as stated: a fallback record is emitted for a closing only when no
\* eligible open existed when it was taken up, also when its quantity is 0.
C7_FallbackOnlyWithoutEligible ==
  \A k \in Processed : HasFallback(k) => EligibleAt(k) = {}

\* C7 amended: a fallback record is emitted for a closing only when no
\* eligible open existed when it was taken up or its quantity is not
\* positive (zero, for a non-numeric cell); with an eligible open and a
\* positive quantity no fallback record is emitted.
C7_FallbackOnlyWithoutEligibleOrZero ==
  \A k \in Processed :
    /\ HasFallback(k) => (EligibleAt(k) = {} \/ closed_trades[k].qty <= 0)
    /\ (EligibleAt(k) # {} /\ closed_trades[k].qty > 0)
         => LotsOf(k) = MatchedLotsOf(k)

\* A closing of positive quantity with an eligible open, processed without
\* a fallback record, beside a zero-quantity closing that got one.
C7_Witness ==
  /\ \E k \in Processed :
       /\ EligibleAt(k) # {}
       /\ closed_trades[k].qty > 0
       /\ ~HasFallback(k)
  /\ \E k \in Processed : closed_trades[k].qty = 0 /\ HasFallback(k)

\* C8: partial match.  A closing with an eligible open whose quantity
\* exceeds the total remaining quantity of its eligible opens empties every
\* one of them, emits one matched ClosedLot per eligible open, their
\* quantities summing to that total, and no record for the leftover: the
\* emitted profits sum to realized_profit * total / quantity.
C8_PartialMatch ==
  \A k \in Processed :
    LET c == closed_trades[k]
        E == EligibleAt(k)
        total == SumRemainingAt(E, k)
    IN (E # {} /\ c.qty > total) =>
         /\ \A j \in E : RemainingAt(new_trades[j], k + 1) = 0
         /\ LotsOf(k) = MatchedLotsOf(k)
         /\ Cardinality(LotsOf(k)) = Cardinality(E)
         /\ SumQty(LotsOf(k)) = total
         /\ FracEq(SumProfit(LotsOf(k)), Frac(c.profit * total, c.qty))
         /\ c.profit # 0 => ~FracEq(SumProfit(LotsOf(k)), Frac(c.profit, 1))

\* A closing of quantity 2 that found a single unit to close.
C8_Witness ==
  \E k \in Processed :
    /\ EligibleAt(k) # {}
    /\ closed_trades[k].qty = 2
    /\ SumRemainingAt(EligibleAt(k), k) = 1
    /\ SumQty(LotsOf(k)) = 1

\* C6: ratio edge cases.  Every group of the summary without a losing
\* ClosedLot, with or without winners, has profit factor +infinity and
\* reward-to-risk +infinity; the win rate of every group is the finite
\* number wins / count * 100, which is 0 for a group without wins; and a
\* group exists only for an instrument that has a ClosedLot.
C6_RatioEdgeCases ==
  pc = "summarized" =>
    /\ DOMAIN summary = {lots[i].name : i \in 1..Len(lots)}
    /\ \A g \in DOMAIN summary :
         LET members == {i \in 1..Len(lots) : lots[i].name = g}
             nwin == Cardinality({i \in members : lots[i].profit.n > 0})
             nloss == Cardinality({i \in members : lots[i].profit.n < 0})
         IN /\ nloss = 0 => (summary[g].pf = Inf /\ summary[g].rr = Inf)
            /\ summary[g].win_rate.kind = "num"
            /\ FracEq(summary[g].win_rate.v,
                      Frac(nwin * 100, Cardinality(members)))
            /\ nwin = 0 => summary[g].win_rate.v.n = 0

\* A summary with a group of winners only beside a group whose only
\* ClosedLot has profit 0.
C6_Witness ==
  /\ pc = "summarized"
  /\ \E g \in DOMAIN summary :
       /\ summary[g].wins > 0
       /\ summary[g].losses = 0
       /\ summary[g].pf = Inf
  /\ \E g \in DOMAIN summary :
       /\ summary[g].wins = 0
       /\ summary[g].losses = 0
       /\ summary[g].rr = Inf

\* Closings of the input with pairwise distinct timestamps.
ClosingsDistinct(d) ==
  \A i, j \in 1..Len(d) :
    (IsClosed(d[i]) /\ IsClosed(d[j]) /\ i # j) => d[i].time # d[j].time

\* No two opens of the same instrument and price share a timestamp.
OpensDistinct(d) ==
  \A i, j \in 1..Len(d) :
    (/\ IsNew(d[i]) /\ IsNew(d[j]) /\ i # j
     /\ d[i].name = d[j].name /\ d[i].price = d[j].price)
    => d[i].time # d[j].time

\* What a ClosedLot shows: its columns, without the history fields.
SameLot(a, b) ==
  /\ a.name = b.name
  /\ FracEq(a.profit, b.profit)
  /\ a.holding_time = b.holding_time
  /\ FracEq(a.lot, b.lot)
  /\ a.trade_type = b.trade_type

SameLotMultiset(a, b) ==
  /\ Len(a) = Len(b)
  /\ \E g \in Permutations(Len(a)) :
       \A i \in 1..Len(a) : SameLot(a[i], b[g[i]])

\* What an opening lot is, without the history field: two rows of the file
\* that read the same are the same lot.
OpenView(o) == <<o.name, o.time, o.qty, o.price, o.remaining>>

SameOpenMultiset(a, b) ==
  /\ Len(a) = Len(b)
  /\ \E g \in Permutations(Len(a)) :
       \A i \in 1..Len(a) : OpenView(a[i]) = OpenView(b[g[i]])

\* The outcome `out` of another run shows the ClosedLots of this run and
\* leaves the opening lots with the remaining quantities they have here.
SameOutcome(out) ==
  /\ SameLotMultiset(out.results, results)
  /\ SameOpenMultiset(out.new_trades, new_trades)

PermutationInvariant ==
  \A f \in Permutations(Len(df)) :
    \A out \in process_trades([i \in 1..Len(df) |-> df[f[i]]]) :
      SameOutcome(out)

InTimestampOrder ==
  /\ IsSortedByTime(closed_trades)
  /\ \A i, j \in LotIdx :
       i < j => closed_trades[ClosedPos(results[i].closed)].time
                  <= closed_trades[ClosedPos(results[j].closed)].time

\* C9 as stated: closings are processed in ascending timestamp order
\* whatever the row order, so with closings of distinct timestamps every
\* permutation of the input rows gives the same multiset of ClosedLots and
\* the same final remaining quantities.
C9_PermutationInvariant ==
  (pc = "done" /\ ClosedOf(df) # <<>> /\ ClosingsDistinct(df)) =>
    (InTimestampOrder /\ PermutationInvariant)

\* C9 amended: the same, for inputs in which moreover no two opening
\* executions of the same instrument and price share a timestamp.
C9_PermutationInvariantDistinctOpens ==
  (/\ pc = "done"
   /\ ClosedOf(df) # <<>>
   /\ ClosingsDistinct(df)
   /\ OpensDistinct(df)) =>
    (InTimestampOrder /\ PermutationInvariant)

\* Two closings of different timestamps, the later one first in the file,
\* both took from the same open.
C9_Witness ==
  /\ pc = "done"
  /\ ClosingsDistinct(df)
  /\ OpensDistinct(df)
  /\ \E a, b \in LotIdx :
       /\ a < b
       /\ ~IsFallbackLot(results[a])
       /\ results[a].open = results[b].open
       /\ results[a].closed > results[b].closed
====
